---- MODULE Spec2Model ----
(***************************************************************************)
(* PSQI-Calculate: the App component (src/App.tsx), its three handlers and *)
(* the name-order step of handleCalculateScores, over the scoring core     *)
(* (services/psqiCalculator) and the pinyin romanization it calls.         *)
(*                                                                         *)
(* Text is a sequence of characters; a character is a one-element string.  *)
(* TLA+ strings are ASCII here, so a Han character is written by its code  *)
(* point ("U+5F20" is the character zhang of the name Zhang San).          *)
(***************************************************************************)
EXTENDS Integers, Sequences, FiniteSets, TLC

\* ------------------------------------------------------------------ bounds
\* The longest batch the extraction returns.
MaxRecords == 3
\* The most lines typed into the sort-order text area.
MaxLines == 3

\* -------------------------------------------------------------- characters
Zhang == "U+5F20"
ZhangAlt == "U+7AE0"
San == "U+4E09"
Li == "U+674E"
Si == "U+56DB"
Wang == "U+738B"
Wu == "U+4E94"
NL == "\n"
SP == " "

\* What JavaScript's String.prototype.trim and the regular expression \s
\* both treat as white space (of the characters used here).
WhiteSpace == {SP, NL, "\t", "\r"}

\* pinyin-pro's table, toneType 'none': the Han characters used here.
Romanization ==
  [c \in {Zhang, ZhangAlt, San, Li, Si, Wang, Wu} |->
     CASE c = Zhang -> <<"z", "h", "a", "n", "g">>
       [] c = ZhangAlt -> <<"z", "h", "a", "n", "g">>
       [] c = San -> <<"s", "a", "n">>
       [] c = Li -> <<"l", "i">>
       [] c = Si -> <<"s", "i">>
       [] c = Wang -> <<"w", "a", "n", "g">>
       [] c = Wu -> <<"w", "u">>]

IsHan(c) == c \in DOMAIN Romanization

\* -------------------------------------------------------------------- text
RECURSIVE TrimStart(_)
TrimStart(s) ==
  IF s # <<>> /\ Head(s) \in WhiteSpace THEN TrimStart(Tail(s)) ELSE s

RECURSIVE TrimEnd(_)
TrimEnd(s) ==
  IF s # <<>> /\ s[Len(s)] \in WhiteSpace
  THEN TrimEnd(SubSeq(s, 1, Len(s) - 1))
  ELSE s

\* String.prototype.trim
Trim(s) == TrimEnd(TrimStart(s))

\* s.replace(/\s/g, '')
RECURSIVE StripWhiteSpace(_)
StripWhiteSpace(s) ==
  IF s = <<>> THEN <<>>
  ELSE IF Head(s) \in WhiteSpace THEN StripWhiteSpace(Tail(s))
  ELSE <<Head(s)>> \o StripWhiteSpace(Tail(s))

\* s.split('\n'): the lines of s; the empty text is one empty line.
RECURSIVE Split(_)
Split(s) ==
  IF \A i \in 1..Len(s) : s[i] # NL THEN <<s>>
  ELSE LET i == CHOOSE k \in 1..Len(s) :
                   s[k] = NL /\ \A j \in 1..(k - 1) : s[j] # NL
       IN <<SubSeq(s, 1, i - 1)>> \o Split(SubSeq(s, i + 1, Len(s)))

\* pinyin(text, {toneType: 'none', nonZh: 'consecutive'}): one item per Han
\* character (its syllable) and one item per run of consecutive non-Han
\* characters (kept as written), the items joined by single spaces.
RECURSIVE PinyinItems(_, _)
PinyinItems(s, run) ==
  IF s = <<>> THEN (IF run = <<>> THEN <<>> ELSE <<run>>)
  ELSE IF IsHan(Head(s))
  THEN (IF run = <<>> THEN <<>> ELSE <<run>>)
       \o <<Romanization[Head(s)]>> \o PinyinItems(Tail(s), <<>>)
  ELSE PinyinItems(Tail(s), Append(run, Head(s)))

RECURSIVE JoinWith(_, _)
JoinWith(items, sep) ==
  IF items = <<>> THEN <<>>
  ELSE IF Len(items) = 1 THEN items[1]
  ELSE items[1] \o sep \o JoinWith(Tail(items), sep)

\* Fault: nonZh: 'removed', the characters without a romanization dropped.
RECURSIVE PinyinItemsHanOnly(_)
PinyinItemsHanOnly(s) ==
  IF s = <<>> THEN <<>>
  ELSE IF IsHan(Head(s))
  THEN <<Romanization[Head(s)]>> \o PinyinItemsHanOnly(Tail(s))
  ELSE PinyinItemsHanOnly(Tail(s))

pinyinNonZhRemoved(s) == JoinWith(PinyinItemsHanOnly(s), <<SP>>)

\* The items joined by single spaces.
pinyin(s) == JoinWith(PinyinItems(s, <<>>), <<SP>>)

\* Fault: the name matched as written, without romanization.
getPinyinKeyRawName(name) ==
  IF name = <<>> THEN <<>> ELSE StripWhiteSpace(Trim(name))

\* getPinyinKey (src/App.tsx:15-20)
getPinyinKey(name) ==
  IF name = <<>> THEN <<>> ELSE StripWhiteSpace(pinyin(Trim(name)))

\* ------------------------------------------------------------ scoring core
\* services/psqiCalculator is not among the sources; the scoring core is
\* modelled from the design document (FieldNormalizer, the breakpoint
\* tables of ComponentScoreCalculator, TotalScoreAggregator, BatchScorer).

\* The "missing" marker of a normalized field.
Missing == -1

Digits == {"0", "1", "2", "3", "4", "5", "6", "7", "8", "9"}

DigitValue(c) ==
  CASE c = "0" -> 0 [] c = "1" -> 1 [] c = "2" -> 2 [] c = "3" -> 3
    [] c = "4" -> 4 [] c = "5" -> 5 [] c = "6" -> 6 [] c = "7" -> 7
    [] c = "8" -> 8 [] c = "9" -> 9

IsNumber(s) == s # <<>> /\ \A i \in 1..Len(s) : s[i] \in Digits

RECURSIVE NumberValue(_)
NumberValue(s) ==
  IF s = <<>> THEN 0
  ELSE 10 * NumberValue(SubSeq(s, 1, Len(s) - 1)) + DigitValue(s[Len(s)])

RECURSIVE Pow10(_)
Pow10(k) == IF k = 0 THEN 1 ELSE 10 * Pow10(k - 1)

\* The first position of character c in s, 0 when there is none.
IndexOf(s, c) ==
  IF \E i \in 1..Len(s) : s[i] = c
  THEN CHOOSE i \in 1..Len(s) : s[i] = c /\ \A j \in 1..(i - 1) : s[j] # c
  ELSE 0

\* FieldNormalizer, ordinal rating: the literal integers 0..3, else missing.
ParseRating(text) ==
  LET s == Trim(text)
  IN IF Len(s) = 1 /\ s[1] \in {"0", "1", "2", "3"}
     THEN DigitValue(s[1])
     ELSE Missing

\* FieldNormalizer, clock time "HH:MM": minutes after midnight, else missing.
ParseClock(text) ==
  LET s == Trim(text)
      k == IndexOf(s, ":")
      hh == SubSeq(s, 1, k - 1)
      mm == SubSeq(s, k + 1, Len(s))
  IN IF k > 0 /\ IsNumber(hh) /\ IsNumber(mm) /\ Len(hh) <= 2 /\ Len(mm) = 2
        /\ NumberValue(hh) < 24 /\ NumberValue(mm) < 60
     THEN 60 * NumberValue(hh) + NumberValue(mm)
     ELSE Missing

\* FieldNormalizer, sleep latency: a whole number of minutes, else missing.
ParseMinutes(text) ==
  LET s == Trim(text)
  IN IF IsNumber(s) THEN NumberValue(s) ELSE Missing

\* FieldNormalizer, duration: decimal hours ("6.5") or "Xh Ym", in minutes,
\* else missing.
ParseDuration(text) ==
  LET s == Trim(text)
      dot == IndexOf(s, ".")
      h == IndexOf(s, "h")
      whole == SubSeq(s, 1, dot - 1)
      frac == SubSeq(s, dot + 1, Len(s))
      hours == SubSeq(s, 1, h - 1)
      rest == Trim(SubSeq(s, h + 1, Len(s)))
      mins == SubSeq(rest, 1, Len(rest) - 1)
  IN IF IsNumber(s) THEN 60 * NumberValue(s)
     ELSE IF dot > 0 /\ IsNumber(whole) /\ IsNumber(frac)
     THEN 60 * NumberValue(whole) + (60 * NumberValue(frac)) \div Pow10(Len(frac))
     ELSE IF h > 0 /\ IsNumber(hours) /\ rest = <<>>
     THEN 60 * NumberValue(hours)
     ELSE IF h > 0 /\ IsNumber(hours) /\ rest # <<>> /\ rest[Len(rest)] = "m"
             /\ IsNumber(mins)
     THEN 60 * NumberValue(hours) + NumberValue(mins)
     ELSE Missing

\* NormalizedFields of one RawRecord.
Normalize(raw) ==
  [bedTime |-> ParseClock(raw.q1),
   latency |-> ParseMinutes(raw.q2),
   wakeTime |-> ParseClock(raw.q3),
   sleepDuration |-> ParseDuration(raw.q4),
   fallAsleep |-> ParseRating(raw.q5a),
   disturbances |-> <<ParseRating(raw.q5b), ParseRating(raw.q5c),
                      ParseRating(raw.q5d), ParseRating(raw.q5e),
                      ParseRating(raw.q5f), ParseRating(raw.q5g),
                      ParseRating(raw.q5h), ParseRating(raw.q5i)>>,
   quality |-> ParseRating(raw.q6),
   medication |-> ParseRating(raw.q7),
   sleepiness |-> ParseRating(raw.q8),
   enthusiasm |-> ParseRating(raw.q9)]

\* The leniency policy: a missing input contributes the minimum, 0.
OrZero(v) == IF v = Missing THEN 0 ELSE v

\* Fault: the sum of two ratings passed through without its table.
BucketOfTwoUnbucketed(sum) == sum

\* The breakpoint table 0 -> 0, [1,2] -> 1, [3,4] -> 2, [5,6] -> 3.
BucketOfTwo(sum) ==
  IF sum = 0 THEN 0 ELSE IF sum <= 2 THEN 1 ELSE IF sum <= 4 THEN 2 ELSE 3

SleepQualityScore(n) == OrZero(n.quality)

\* The latency duration's own bucket; the design document names the shape
\* only, the breakpoints are the PSQI instrument's (15, 30, 60 minutes).
LatencyBucket(minutes) ==
  IF minutes = Missing THEN 0
  ELSE IF minutes <= 15 THEN 0
  ELSE IF minutes <= 30 THEN 1
  ELSE IF minutes <= 60 THEN 2
  ELSE 3

SleepLatencyScore(n) ==
  BucketOfTwo(LatencyBucket(n.latency) + OrZero(n.fallAsleep))

\* Fault: a missing duration read as 0 hours.
SleepDurationScoreZeroHours(n) ==
  IF OrZero(n.sleepDuration) >= 420 THEN 0
  ELSE IF OrZero(n.sleepDuration) >= 360 THEN 1
  ELSE IF OrZero(n.sleepDuration) >= 300 THEN 2
  ELSE 3

\* >= 7 h -> 0, [6,7) -> 1, [5,6) -> 2, < 5 -> 3; missing -> 0.
SleepDurationScore(n) ==
  IF n.sleepDuration = Missing THEN 0
  ELSE IF n.sleepDuration >= 420 THEN 0
  ELSE IF n.sleepDuration >= 360 THEN 1
  ELSE IF n.sleepDuration >= 300 THEN 2
  ELSE 3

\* Wake time minus bed time, wrapped across midnight.
TimeInBed(n) ==
  IF n.wakeTime >= n.bedTime
  THEN n.wakeTime - n.bedTime
  ELSE n.wakeTime - n.bedTime + 1440

\* Fault: no test of the time in bed before the division; sleep / 0 is
\* Infinity, which is >= 85.
SleepEfficiencyScoreNoGuard(n) ==
  IF n.bedTime = Missing \/ n.wakeTime = Missing \/ n.sleepDuration = Missing
  THEN 0
  ELSE IF 100 * n.sleepDuration >= 85 * TimeInBed(n) THEN 0
  ELSE IF 100 * n.sleepDuration >= 75 * TimeInBed(n) THEN 1
  ELSE IF 100 * n.sleepDuration >= 65 * TimeInBed(n) THEN 2
  ELSE 3

\* efficiency% = sleep / time in bed * 100: >= 85 -> 0, [75,85) -> 1,
\* [65,75) -> 2, < 65 -> 3. A missing bed or wake time -> 0; a time in bed
\* <= 0 -> 3, whatever the duration; a missing duration -> 0.
SleepEfficiencyScore(n) ==
  IF n.bedTime = Missing \/ n.wakeTime = Missing THEN 0
  ELSE IF TimeInBed(n) <= 0 THEN 3
  ELSE IF n.sleepDuration = Missing THEN 0
  ELSE IF 100 * n.sleepDuration >= 85 * TimeInBed(n) THEN 0
  ELSE IF 100 * n.sleepDuration >= 75 * TimeInBed(n) THEN 1
  ELSE IF 100 * n.sleepDuration >= 65 * TimeInBed(n) THEN 2
  ELSE 3

RECURSIVE SumOrZero(_)
SumOrZero(ratings) ==
  IF ratings = <<>> THEN 0
  ELSE OrZero(Head(ratings)) + SumOrZero(Tail(ratings))

\* Fault: the breakpoints taken as exclusive upper bounds.
SleepDisturbancesScoreExclusive(n) ==
  LET sum == SumOrZero(n.disturbances)
  IN IF sum = 0 THEN 0 ELSE IF sum < 9 THEN 1 ELSE IF sum < 18 THEN 2 ELSE 3

\* 0 -> 0, [1,9] -> 1, [10,18] -> 2, [19,24] -> 3.
SleepDisturbancesScore(n) ==
  LET sum == SumOrZero(n.disturbances)
  IN IF sum = 0 THEN 0 ELSE IF sum <= 9 THEN 1 ELSE IF sum <= 18 THEN 2 ELSE 3

MedicationScore(n) == OrZero(n.medication)

DaytimeDysfunctionScore(n) ==
  BucketOfTwo(OrZero(n.sleepiness) + OrZero(n.enthusiasm))

\* ComponentScores of one RawRecord.
ComponentScores(raw) ==
  LET n == Normalize(raw)
  IN [c1_sleepQuality |-> SleepQualityScore(n),
      c2_sleepLatency |-> SleepLatencyScore(n),
      c3_sleepDuration |-> SleepDurationScore(n),
      c4_sleepEfficiency |-> SleepEfficiencyScore(n),
      c5_sleepDisturbances |-> SleepDisturbancesScore(n),
      c6_useOfMedication |-> MedicationScore(n),
      c7_daytimeDysfunction |-> DaytimeDysfunctionScore(n)]

\* TotalScoreAggregator
TotalScore(scores) ==
  scores.c1_sleepQuality + scores.c2_sleepLatency + scores.c3_sleepDuration
  + scores.c4_sleepEfficiency + scores.c5_sleepDisturbances
  + scores.c6_useOfMedication + scores.c7_daytimeDysfunction

\* One ScoreReport (PsqiScoreData, src/App.tsx:223-229).
ScoreReport(raw) ==
  LET scores == ComponentScores(raw)
  IN [id |-> raw.id, name |-> raw.name, age |-> raw.age,
      scores |-> scores, totalScore |-> TotalScore(scores)]

\* ------------------------------------------------------------------ inputs
\* A RawPsqiData record (src/App.tsx:187-211); every field is free text.
Raw(id, name, age, q1, q2, q3, q4, q5, q6, q7, q8, q9) ==
  [id |-> id, timeTaken |-> <<"9", "0", "s">>, date |-> <<"1", "/", "2">>,
   name |-> name, age |-> age, q1 |-> q1, q2 |-> q2, q3 |-> q3, q4 |-> q4,
   q5a |-> q5[1], q5b |-> q5[2], q5c |-> q5[3], q5d |-> q5[4],
   q5e |-> q5[5], q5f |-> q5[6], q5g |-> q5[7], q5h |-> q5[8],
   q5i |-> q5[9], q5j |-> q5[10],
   q6 |-> q6, q7 |-> q7, q8 |-> q8, q9 |-> q9]

Blank == <<>>
AllBlank == [i \in 1..10 |-> Blank]

\* The records the extraction may return: Zhang San, Li Si, Wang Wu, a
\* second Zhang San written with another first character (same syllables),
\* and a record without a name.
RecordPool ==
  { Raw(<<"1">>, <<Zhang, San>>, <<"2", "5">>,
        <<"2", "3", ":", "0", "0">>, <<"1", "0">>, <<"0", "7", ":", "0", "0">>,
        <<"8">>, [i \in 1..10 |-> <<"0">>], <<"0">>, <<"0">>, <<"0">>, <<"0">>),
    Raw(<<"2">>, <<Li, Si>>, <<"4", "1">>,
        <<"0", "1", ":", "3", "0">>, <<"4", "5">>, <<"0", "6", ":", "3", "0">>,
        <<"4">>, [i \in 1..10 |-> <<"3">>], <<"3">>, <<"1">>, <<"2">>, <<"3">>),
    Raw(<<"3">>, <<Wang, Wu>>, Blank,
        Blank, Blank, Blank, Blank, AllBlank, Blank, Blank, Blank, Blank),
    Raw(<<"4">>, <<ZhangAlt, San>>, <<"3", "3">>,
        <<"2", "2", ":", "3", "0">>, <<"2", "0">>, <<"2", "2", ":", "3", "0">>,
        <<"6", ".", "5">>, [i \in 1..10 |-> <<"1">>], <<"1">>, <<"2">>,
        <<"1">>, <<"0">>),
    Raw(<<"5">>, Blank, <<"x">>,
        <<"l", "a", "t", "e">>, <<"?">>, <<"7">>, <<"5", "h", SP, "3", "0", "m">>,
        [i \in 1..10 |-> <<"2">>], <<"9">>, <<"2">>, <<"3">>, <<"3">>) }

\* A name the extraction returned as a JSON number, not as a string.
NumberName == <<"typeof name === 'number'">>
NonStrings == {NumberName}

\* A record whose name is not a string, the rest as Zhang San's.
MalformedRecord ==
  Raw(<<"6">>, NumberName, <<"2", "5">>,
      <<"2", "3", ":", "0", "0">>, <<"1", "0">>, <<"0", "7", ":", "0", "0">>,
      <<"8">>, [i \in 1..10 |-> <<"0">>], <<"0">>, <<"0">>, <<"0">>, <<"0">>)

\* What extractDataFromImage may resolve to: any batch of at most
\* MaxRecords records, a record (and so an id and a name) may repeat.
Batches == UNION {[1..n -> RecordPool] : n \in 0..MaxRecords}

\* The lines typed into the sort-order text area.
LinePool == {<<Zhang, San>>, <<Li, Si>>, <<SP>>}

\* The texts a rating, a latency, a clock time and a duration are drawn from
\* when one record is scored on its own.
RatingTexts == {Blank, <<"0">>, <<"1">>, <<"2">>, <<"3">>, <<"x">>}
LatencyTexts ==
  {Blank, <<"0">>, <<"1", "5">>, <<"1", "6">>, <<"3", "0">>, <<"3", "1">>,
   <<"6", "0">>, <<"6", "1">>, <<"a", "b", "c">>}
BedTimeTexts ==
  {Blank, <<"2", "3", ":", "0", "0">>, <<"0", "1", ":", "3", "0">>,
   <<"2", "2", ":", "3", "0">>, <<"l", "a", "t", "e">>}
WakeTimeTexts ==
  {Blank, <<"0", "7", ":", "0", "0">>, <<"0", "6", ":", "3", "0">>,
   <<"2", "2", ":", "3", "0">>, <<"7">>}
DurationTexts ==
  {Blank, <<"8">>, <<"7">>, <<"6", ".", "5">>, <<"6">>, <<"5", ".", "5">>,
   <<"5">>, <<"4">>, <<"0">>, <<"7", "h", SP, "3", "0", "m">>,
   <<"a", "b", "c">>}

BlankRecord ==
  Raw(<<"7">>, <<Li, Si>>, Blank, Blank, Blank, Blank, Blank, AllBlank,
      Blank, Blank, Blank, Blank)

Rep(t, n) == [i \in 1..n |-> t]

\* The eight ratings q5b..q5i in non-increasing order (threes, twos, ones,
\* zeros, then blanks): every multiset of ratings, so every sum, once.
DisturbanceTexts ==
  {Rep(<<"3">>, n[1]) \o Rep(<<"2">>, n[2]) \o Rep(<<"1">>, n[3])
     \o Rep(<<"0">>, n[4]) \o Rep(Blank, 8 - (n[1] + n[2] + n[3] + n[4])) :
   n \in {m \in [1..4 -> 0..8] : m[1] + m[2] + m[3] + m[4] <= 8}}

\* One record scored on its own: the blank record with the inputs of one
\* group of components drawn from their texts.
ScoreSpace ==
  {[BlankRecord EXCEPT !.q6 = a, !.q7 = b] : a \in RatingTexts, b \in RatingTexts}
  \cup {[BlankRecord EXCEPT !.q8 = a, !.q9 = b] : a \in RatingTexts, b \in RatingTexts}
  \cup {[BlankRecord EXCEPT !.q2 = a, !.q5a = b] : a \in LatencyTexts, b \in RatingTexts}
  \cup {[BlankRecord EXCEPT !.q1 = a, !.q3 = b, !.q4 = c] :
          a \in BedTimeTexts, b \in WakeTimeTexts, c \in DurationTexts}
  \cup {[BlankRecord EXCEPT !.q5b = q[1], !.q5c = q[2], !.q5d = q[3],
                            !.q5e = q[4], !.q5f = q[5], !.q5g = q[6],
                            !.q5h = q[7], !.q5i = q[8], !.q5j = j] :
          q \in DisturbanceTexts, j \in {Blank, <<"3">>}}

\* ScoreReport tabulated over the records of the model.
ScoreReportOf ==
  [raw \in RecordPool \cup ScoreSpace \cup {MalformedRecord} |-> ScoreReport(raw)]

\* calculateAllPsqiScores: one new report object per record, in the input's
\* order. ref is the object's identity (its place in the returned array):
\* two reports of equal content are still two objects.
calculateAllPsqiScores(data) ==
  [i \in 1..Len(data) |-> [ref |-> i] @@ ScoreReportOf[data[i]]]

\* ---------------------------------------------------------- name ordering
\* nameSortOrder.split('\n').map(name => name.trim()).filter(Boolean)
\* (src/App.tsx:55)
sortOrderNames(text) ==
  LET lines == Split(text)
      trimmed == [i \in 1..Len(lines) |-> Trim(lines[i])]
  IN SelectSeq(trimmed, LAMBDA name : name # <<>>)

\* Fault: a later entry of the same key overwrites the earlier one.
RECURSIVE BuildOrderMapLastWins(_, _, _)
BuildOrderMapLastWins(names, index, map) ==
  IF index >= Len(names) THEN map
  ELSE LET key == getPinyinKey(names[index + 1])
       IN IF key # <<>>
          THEN BuildOrderMapLastWins(names, index + 1,
                 (key :> index) @@ map)
          ELSE BuildOrderMapLastWins(names, index + 1, map)

\* The forEach of src/App.tsx:62-70 from entry `index` (0-based) on: a key
\* already in the map keeps its index.
RECURSIVE BuildOrderMap(_, _, _)
BuildOrderMap(names, index, map) ==
  IF index >= Len(names) THEN map
  ELSE LET key == getPinyinKey(names[index + 1])
       IN IF key # <<>> /\ key \notin DOMAIN map
          THEN BuildOrderMap(names, index + 1, map @@ (key :> index))
          ELSE BuildOrderMap(names, index + 1, map)

\* new Map(), then the forEach.
pinyinOrderMap(names) == BuildOrderMap(names, 0, <<>>)

\* A JavaScript number that is an array index or Infinity.
Num(n) == [inf |-> FALSE, n |-> n]
Infinity == [inf |-> TRUE, n |-> 0]

\* Fault: an absent key read as -1.
IndexOfKeyMinusOne(map, key) ==
  IF key \in DOMAIN map THEN Num(map[key]) ELSE Num(-1)

\* pinyinOrderMap.get(key) ?? Infinity (src/App.tsx:76-77)
IndexOfKey(map, key) ==
  IF key \in DOMAIN map THEN Num(map[key]) ELSE Infinity

\* Fault: the operands of the subtraction exchanged.
CompareDescending(map, a, b) ==
  LET indexA == IndexOfKey(map, getPinyinKey(a.name))
      indexB == IndexOfKey(map, getPinyinKey(b.name))
  IN IF indexA = indexB THEN 0
     ELSE IF indexA.inf THEN -1
     ELSE IF indexB.inf THEN 1
     ELSE indexB.n - indexA.n

\* The comparator of src/App.tsx:72-82. Infinity - Infinity is NaN, which
\* Array.prototype.sort reads as 0; the equality test returns before it.
Compare(map, a, b) ==
  LET indexA == IndexOfKey(map, getPinyinKey(a.name))
      indexB == IndexOfKey(map, getPinyinKey(b.name))
  IN IF indexA = indexB THEN 0
     ELSE IF indexA.inf /\ indexB.inf THEN 0
     ELSE IF indexA.inf THEN 1
     ELSE IF indexB.inf THEN -1
     ELSE indexA.n - indexB.n

\* Fault: an unstable sort, an element moving left past its equals too.
RECURSIVE InsertSortedUnstable(_, _, _)
InsertSortedUnstable(map, sorted, x) ==
  IF sorted # <<>> /\ Compare(map, sorted[Len(sorted)], x) >= 0
  THEN Append(InsertSortedUnstable(map, SubSeq(sorted, 1, Len(sorted) - 1), x),
              sorted[Len(sorted)])
  ELSE Append(sorted, x)

\* Array.prototype.sort is stable (ECMAScript 2019): an element moves left
\* only past elements the comparator puts strictly after it.
RECURSIVE InsertSorted(_, _, _)
InsertSorted(map, sorted, x) ==
  IF sorted # <<>> /\ Compare(map, sorted[Len(sorted)], x) > 0
  THEN Append(InsertSorted(map, SubSeq(sorted, 1, Len(sorted) - 1), x),
              sorted[Len(sorted)])
  ELSE Append(sorted, x)

\* Fault: a sort that is not stable, equal elements left in reverse order.
RECURSIVE SortTiesReversed(_, _)
SortTiesReversed(map, arr) ==
  IF arr = <<>> THEN <<>>
  ELSE InsertSortedUnstable(map,
         SortTiesReversed(map, SubSeq(arr, 1, Len(arr) - 1)), arr[Len(arr)])

\* The sorted order of arr.
RECURSIVE Sort(_, _)
Sort(map, arr) ==
  IF arr = <<>> THEN <<>>
  ELSE InsertSorted(map, Sort(map, SubSeq(arr, 1, Len(arr) - 1)), arr[Len(arr)])

\* Fault: calculatedScores.sort(...), the array sorted in place.
SortInPlace(map, arr) == [source |-> Sort(map, arr), result |-> Sort(map, arr)]

\* [...calculatedScores].sort(...): the copy is sorted, the array copied
\* from is left as it was.
SortCopy(map, arr) == [source |-> arr, result |-> Sort(map, arr)]

\* Fault: finalScores starts empty instead of as calculatedScores.
ReorderNoDefault(calculated, text) ==
  LET names == sortOrderNames(text)
  IN IF Len(names) > 0
     THEN LET sorted == SortCopy(pinyinOrderMap(names), calculated)
          IN [calculatedScores |-> sorted.source, finalScores |-> sorted.result]
     ELSE [calculatedScores |-> calculated, finalScores |-> <<>>]

\* Fault: blank lines neither filtered out nor skipped when the map is built.
RECURSIVE BuildOrderMapBlankKept(_, _, _)
BuildOrderMapBlankKept(names, index, map) ==
  IF index >= Len(names) THEN map
  ELSE LET key == getPinyinKey(names[index + 1])
       IN IF key \notin DOMAIN map
          THEN BuildOrderMapBlankKept(names, index + 1, map @@ (key :> index))
          ELSE BuildOrderMapBlankKept(names, index + 1, map)

ReorderBlankKept(calculated, text) ==
  LET lines == Split(text)
      names == [i \in 1..Len(lines) |-> Trim(lines[i])]
      sorted == SortCopy(BuildOrderMapBlankKept(names, 0, <<>>), calculated)
  IN [calculatedScores |-> sorted.source, finalScores |-> sorted.result]

\* src/App.tsx:57-83: the array calculateAllPsqiScores returned, as the
\* handler leaves it, and finalScores.
Reorder(calculated, text) ==
  LET names == sortOrderNames(text)
  IN IF Len(names) > 0
     THEN LET sorted == SortCopy(pinyinOrderMap(names), calculated)
          IN [calculatedScores |-> sorted.source, finalScores |-> sorted.result]
     ELSE [calculatedScores |-> calculated, finalScores |-> calculated]

\* getPinyinKey throws a TypeError (src/App.tsx:16, 19): a name that is
\* truthy and not a string passes `!name` and has no trim method.
getPinyinKeyThrows(name) == name \in NonStrings

\* The comparator (src/App.tsx:72-74) throws: sort calls it on every element
\* of an array of two or more, and on none of a shorter array.
SortThrows(arr) ==
  Len(arr) >= 2 /\ \E i \in 1..Len(arr) : getPinyinKeyThrows(arr[i].name)

\* The try block (src/App.tsx:54-83) throws: the lines of the sort order are
\* strings, so only the comparator can.
ReorderThrows(calculated, text) ==
  SortThrows(calculated) /\ Len(sortOrderNames(text)) > 0

\* ------------------------------------------------------------------- state
VARIABLES
  step,             \* AppStep
  rawPsqiData,      \* RawPsqiData[]
  psqiScores,       \* PsqiScoreData[]
  isLoading,        \* boolean
  error,            \* string | null
  nameSortOrder,    \* the text of the sort-order text area
  inFlight,         \* extractions awaited by handleImageUpload
  calculatedScores, \* the array calculateAllPsqiScores returned to the last
                    \* handleCalculateScores, as that handler left it
  keyCall           \* a call of getPinyinKey on its own: its argument, and
                    \* its value once it has returned

vars == <<step, rawPsqiData, psqiScores, isLoading, error, nameSortOrder,
          inFlight, calculatedScores, keyCall>>

Upload == "UPLOAD"
Processing == "PROCESSING"
DisplayData == "DISPLAY_DATA"
Results == "RESULTS"

Null == "null"
ExtractError == "Failed to extract data. Please check your file."
CalcError == "Calculation failed. Please check the data format. Error: name.trim is not a function"

\* No call of getPinyinKey on its own.
NoCall == [name |-> <<>>, key |-> <<>>, returned |-> FALSE]

\* useState initial values (src/App.tsx:24-29)
Init ==
  /\ step = Upload
  /\ rawPsqiData = <<>>
  /\ psqiScores = <<>>
  /\ isLoading = FALSE
  /\ error = Null
  /\ nameSortOrder = <<>>
  /\ inFlight = 0
  /\ calculatedScores = <<>>
  /\ keyCall = NoCall

\* Fault: the spinner branch of renderContent missing, the uploader shown
\* while an extraction is awaited.
ShowsUploaderWhileLoading == error = Null /\ step \in {Upload, Processing}

\* renderContent (src/App.tsx:106-161): what the screen offers.
ShowsUploader ==
  ~isLoading /\ error = Null /\ step \in {Upload, Processing}
ShowsDataTable == ~isLoading /\ error = Null /\ step = DisplayData
ShowsResults == ~isLoading /\ error = Null /\ step = Results
ShowsError == ~isLoading /\ error # Null

\* handleImageUpload up to its await (src/App.tsx:31-37)
HandleImageUpload ==
  /\ ShowsUploader
  /\ isLoading' = TRUE
  /\ error' = Null
  /\ step' = Processing
  /\ inFlight' = inFlight + 1
  /\ UNCHANGED <<rawPsqiData, psqiScores, nameSortOrder,
               calculatedScores, keyCall>>

\* extractDataFromImage resolves: src/App.tsx:38-39, 46
ExtractionResolves ==
  /\ inFlight > 0
  /\ \E data \in Batches : rawPsqiData' = data
  /\ step' = DisplayData
  /\ isLoading' = FALSE
  /\ inFlight' = inFlight - 1
  /\ UNCHANGED <<psqiScores, error, nameSortOrder,
               calculatedScores, keyCall>>

\* Fault: the catch block sends the failed upload on to the data screen.
ExtractionRejectsToDisplay ==
  /\ inFlight > 0
  /\ error' = ExtractError
  /\ step' = DisplayData
  /\ isLoading' = FALSE
  /\ inFlight' = inFlight - 1
  /\ UNCHANGED <<rawPsqiData, psqiScores, nameSortOrder,
               calculatedScores, keyCall>>

\* Fault: no finally block, isLoading left true when the extraction fails.
ExtractionRejectsStillLoading ==
  /\ inFlight > 0
  /\ error' = ExtractError
  /\ step' = Upload
  /\ inFlight' = inFlight - 1
  /\ UNCHANGED <<rawPsqiData, psqiScores, isLoading, nameSortOrder,
                 calculatedScores, keyCall>>

\* extractDataFromImage rejects: src/App.tsx:40-46
ExtractionRejects ==
  /\ inFlight > 0
  /\ error' = ExtractError
  /\ step' = Upload
  /\ isLoading' = FALSE
  /\ inFlight' = inFlight - 1
  /\ UNCHANGED <<rawPsqiData, psqiScores, nameSortOrder,
               calculatedScores, keyCall>>

\* SortConfigurator's onChange={setNameSortOrder} (src/App.tsx:138): the
\* user types one more line.
TypeSortLine ==
  /\ ShowsDataTable
  /\ nameSortOrder = <<>> \/ Len(Split(nameSortOrder)) < MaxLines
  /\ \E line \in LinePool :
       nameSortOrder' = IF nameSortOrder = <<>> THEN line
                        ELSE nameSortOrder \o <<NL>> \o line
  /\ UNCHANGED <<step, rawPsqiData, psqiScores, isLoading, error, inFlight,
                 calculatedScores, keyCall>>

\* Fault: setPsqiScores called on the array as calculated, before the
\* reorder that may throw.
HandleCalculateScoresSetsEarly ==
  /\ ShowsDataTable
  /\ LET calculated == calculateAllPsqiScores(rawPsqiData)
     IN IF ReorderThrows(calculated, nameSortOrder)
        THEN /\ calculatedScores' = calculated
             /\ psqiScores' = calculated
             /\ error' = CalcError
             /\ step' = DisplayData
        ELSE LET r == Reorder(calculated, nameSortOrder)
             IN /\ calculatedScores' = r.calculatedScores
                /\ psqiScores' = r.finalScores
                /\ step' = Results
                /\ error' = Null
  /\ isLoading' = FALSE
  /\ UNCHANGED <<rawPsqiData, nameSortOrder, inFlight, keyCall>>

\* handleCalculateScores (src/App.tsx:50-95)
HandleCalculateScores ==
  /\ ShowsDataTable
  /\ LET calculated == calculateAllPsqiScores(rawPsqiData)
     IN IF ReorderThrows(calculated, nameSortOrder)
        THEN /\ calculatedScores' = calculated
             /\ error' = CalcError
             /\ step' = DisplayData
             /\ UNCHANGED psqiScores
        ELSE LET r == Reorder(calculated, nameSortOrder)
             IN /\ calculatedScores' = r.calculatedScores
                /\ psqiScores' = r.finalScores
                /\ step' = Results
                /\ error' = Null
  /\ isLoading' = FALSE
  /\ UNCHANGED <<rawPsqiData, nameSortOrder, inFlight, keyCall>>

\* Fault: handleReset without setRawPsqiData([]).
HandleResetKeepsData ==
  /\ ShowsError \/ ShowsDataTable \/ ShowsResults
  /\ step' = Upload
  /\ psqiScores' = <<>>
  /\ error' = Null
  /\ isLoading' = FALSE
  /\ nameSortOrder' = <<>>
  /\ calculatedScores' = <<>>
  /\ UNCHANGED <<rawPsqiData, inFlight, keyCall>>

\* handleReset (src/App.tsx:97-104); the last calculation's array is garbage.
HandleReset ==
  /\ ShowsError \/ ShowsDataTable \/ ShowsResults
  /\ step' = Upload
  /\ rawPsqiData' = <<>>
  /\ psqiScores' = <<>>
  /\ error' = Null
  /\ isLoading' = FALSE
  /\ nameSortOrder' = <<>>
  /\ calculatedScores' = <<>>
  /\ UNCHANGED <<inFlight, keyCall>>

Next ==
  \/ HandleImageUpload
  \/ ExtractionResolves
  \/ ExtractionRejects
  \/ TypeSortLine
  \/ HandleCalculateScores
  \/ HandleReset

Spec == Init /\ [][Next]_vars

\* One record scored on its own: the extraction has resolved to a batch of
\* one record of ScoreSpace and the data table is shown.
InitScore ==
  /\ step = DisplayData
  /\ rawPsqiData \in {<<raw>> : raw \in ScoreSpace}
  /\ psqiScores = <<>>
  /\ isLoading = FALSE
  /\ error = Null
  /\ nameSortOrder = <<>>
  /\ inFlight = 0
  /\ calculatedScores = <<>>
  /\ keyCall = NoCall

NextScore ==
  \/ HandleCalculateScores
  \/ HandleReset

SpecScore == InitScore /\ [][NextScore]_vars

\* ------------------------------------------------- the calculation alone
\* The records of a batch to calculate: those of RecordPool, and one whose
\* name is not a string.
CalcBatches ==
  UNION {[1..n -> RecordPool \cup {MalformedRecord}] : n \in 0..MaxRecords}

\* The sort orders typed before the calculation: none, two names of the
\* batch, a name and a blank line.
CalcTexts ==
  {<<>>, <<Li, Si, NL, Zhang, San>>, <<Wang, Wu, NL, SP>>}

\* The data screen after an extraction (src/App.tsx:38-39) and the typing of
\* a sort order (src/App.tsx:138).
InitCalc ==
  /\ step = DisplayData
  /\ rawPsqiData \in CalcBatches
  /\ psqiScores = <<>>
  /\ isLoading = FALSE
  /\ error = Null
  /\ nameSortOrder \in CalcTexts
  /\ inFlight = 0
  /\ calculatedScores = <<>>
  /\ keyCall = NoCall

NextCalc ==
  \/ HandleCalculateScores
  \/ HandleReset

SpecCalc == InitCalc /\ [][NextCalc]_vars

\* handleCalculateScores statement by statement. Its entry, src/App.tsx:50-53.
BeginCalculate ==
  /\ ShowsDataTable
  /\ isLoading' = TRUE
  /\ error' = Null
  /\ calculatedScores' = <<>>
  /\ UNCHANGED <<step, rawPsqiData, psqiScores, nameSortOrder, inFlight,
                 keyCall>>

\* The call of src/App.tsx:54 in progress: calculateAllPsqiScores scores the
\* next record of the batch, in the batch's order.
ScoreNextRecord ==
  /\ isLoading /\ step = DisplayData /\ inFlight = 0
  /\ Len(calculatedScores) < Len(rawPsqiData)
  /\ LET i == Len(calculatedScores) + 1
     IN calculatedScores' =
          Append(calculatedScores, [ref |-> i] @@ ScoreReportOf[rawPsqiData[i]])
  /\ UNCHANGED <<step, rawPsqiData, psqiScores, isLoading, error,
                 nameSortOrder, inFlight, keyCall>>

\* Fault: the reorder does not wait for the array calculateAllPsqiScores
\* returns, and sorts the reports scored so far.
FinishCalculateEarly ==
  /\ isLoading /\ step = DisplayData /\ inFlight = 0
  /\ IF ReorderThrows(calculatedScores, nameSortOrder)
     THEN /\ error' = CalcError
          /\ step' = DisplayData
          /\ UNCHANGED <<psqiScores, calculatedScores>>
     ELSE LET r == Reorder(calculatedScores, nameSortOrder)
          IN /\ calculatedScores' = r.calculatedScores
             /\ psqiScores' = r.finalScores
             /\ step' = Results
             /\ error' = Null
  /\ isLoading' = FALSE
  /\ UNCHANGED <<rawPsqiData, nameSortOrder, inFlight, keyCall>>

\* src/App.tsx:55-94, once the call of line 54 has returned the array of
\* all the reports: the reorder, then the try's end or the catch, then the
\* finally.
FinishCalculate ==
  /\ isLoading /\ step = DisplayData /\ inFlight = 0
  /\ Len(calculatedScores) = Len(rawPsqiData)
  /\ IF ReorderThrows(calculatedScores, nameSortOrder)
     THEN /\ error' = CalcError
          /\ step' = DisplayData
          /\ UNCHANGED <<psqiScores, calculatedScores>>
     ELSE LET r == Reorder(calculatedScores, nameSortOrder)
          IN /\ calculatedScores' = r.calculatedScores
             /\ psqiScores' = r.finalScores
             /\ step' = Results
             /\ error' = Null
  /\ isLoading' = FALSE
  /\ UNCHANGED <<rawPsqiData, nameSortOrder, inFlight, keyCall>>

NextSteps ==
  \/ BeginCalculate
  \/ ScoreNextRecord
  \/ FinishCalculate
  \/ HandleReset

SpecSteps == InitCalc /\ [][NextSteps]_vars

\* ------------------------------------------------- uploads that complete
\* The component with the sort order left empty, and every extraction
\* awaited in the end resolving or rejecting.
NextLive ==
  \/ HandleImageUpload
  \/ ExtractionResolves
  \/ ExtractionRejects
  \/ HandleCalculateScores
  \/ HandleReset

SpecLive ==
  Init /\ [][NextLive]_vars /\ WF_vars(ExtractionResolves \/ ExtractionRejects)

\* ------------------------------------------------------- getPinyinKey alone
MaxNameLen == 3

\* The characters of a name: two with a romanization, a letter and a hyphen
\* without, a space and a tab.
KeyChars == {Li, Si, "a", "-", SP, "\t"}

KeyNames == UNION {[1..n -> KeyChars] : n \in 0..MaxNameLen}

\* A call of getPinyinKey about to be made, the component as constructed.
InitKey ==
  /\ step = Upload
  /\ rawPsqiData = <<>>
  /\ psqiScores = <<>>
  /\ isLoading = FALSE
  /\ error = Null
  /\ nameSortOrder = <<>>
  /\ inFlight = 0
  /\ calculatedScores = <<>>
  /\ keyCall \in {[name |-> n, key |-> <<>>, returned |-> FALSE] : n \in KeyNames}

\* getPinyinKey (src/App.tsx:15-20) returns.
GetPinyinKeyReturns ==
  /\ ~keyCall.returned
  /\ keyCall' = [keyCall EXCEPT !.key = getPinyinKey(keyCall.name),
                                !.returned = TRUE]
  /\ UNCHANGED <<step, rawPsqiData, psqiScores, isLoading, error,
                 nameSortOrder, inFlight, calculatedScores>>

NextKey == GetPinyinKeyReturns

SpecKey == InitKey /\ [][NextKey]_vars

\* ================================================================= claims
\* The phonetic key as the design document states it: each character with
\* a romanization replaced by it, every other character kept in place, all
\* white space dropped.
RECURSIVE FlatKey(_)
FlatKey(name) ==
  IF name = <<>> THEN <<>>
  ELSE (IF Head(name) \in WhiteSpace THEN <<>>
        ELSE IF IsHan(Head(name)) THEN Romanization[Head(name)]
        ELSE <<Head(name)>>) \o FlatKey(Tail(name))

IsBlankLine(line) == \A i \in 1..Len(line) : line[i] \in WhiteSpace

\* The SortSpec: the lines of the text that are not blank.
SpecEntries(text) == SelectSeq(Split(text), LAMBDA line : ~IsBlankLine(line))

RECURSIVE KeysOf(_)
KeysOf(names) ==
  IF names = <<>> THEN <<>> ELSE <<FlatKey(Head(names))>> \o KeysOf(Tail(names))

\* The (1-based) SortSpec entries, given by their keys, that a key matches.
MatchSet(entryKeys, key) == {i \in 1..Len(entryKeys) : entryKeys[i] = key}

\* For each report in turn, the SortSpec entries its name matches.
RECURSIVE MatchSets(_, _)
MatchSets(entryKeys, reports) ==
  IF reports = <<>> THEN <<>>
  ELSE <<MatchSet(entryKeys, FlatKey(Head(reports).name))>>
       \o MatchSets(entryKeys, Tail(reports))

\* The entries each report of psqiScores matches in the SortSpec typed.
Matches == MatchSets(KeysOf(SpecEntries(nameSortOrder)), psqiScores)

Least(set) == CHOOSE i \in set : \A j \in set : i <= j

Scored == calculateAllPsqiScores(rawPsqiData)

RECURSIVE NamesOf(_)
NamesOf(reports) ==
  IF reports = <<>> THEN <<>>
  ELSE <<Head(reports).name>> \o NamesOf(Tail(reports))

\* C1: after handleCalculateScores, psqiScores is a permutation of the
\* scored reports: the same length, every scored report object exactly once
\* (reports of equal id or name included), each with its id, name, age,
\* component scores and total as scored; and the array
\* calculateAllPsqiScores returned is still in its original order.
C1_ReorderIsPermutation ==
  step = Results =>
    /\ Len(psqiScores) = Len(rawPsqiData)
    /\ \A r \in 1..Len(rawPsqiData) :
         Cardinality({k \in 1..Len(psqiScores) : psqiScores[k].ref = r}) = 1
    /\ \A k \in 1..Len(psqiScores) :
         /\ psqiScores[k].ref \in 1..Len(rawPsqiData)
         /\ psqiScores[k] = Scored[psqiScores[k].ref]
    /\ calculatedScores = Scored

C1_Witness ==
  /\ step = Results
  /\ psqiScores # calculatedScores
  /\ \E i, j \in 1..Len(psqiScores) : i # j /\ psqiScores[i].id = psqiScores[j].id

\* C2: with a SortSpec that has no entry (no line, or blank lines only) the
\* final sequence is the scored sequence, element for element.
C2_EmptySpecIsIdentity ==
  (step = Results /\ SpecEntries(nameSortOrder) = <<>>) => psqiScores = Scored

C2_Witness ==
  /\ step = Results
  /\ Len(Split(nameSortOrder)) >= 2
  /\ SpecEntries(nameSortOrder) = <<>>
  /\ Len(psqiScores) >= 2
  /\ psqiScores[1].name # psqiScores[2].name

\* C3: the reorder is stable: two reports of equal rank (both unmatched, or
\* both matching the same SortSpec entries) stand in the output in their
\* input order.
C3_StableOnEqualRank ==
  step = Results =>
    LET m == Matches
    IN \A i, j \in 1..Len(psqiScores) :
         (i < j /\ m[i] = m[j]) => psqiScores[i].ref < psqiScores[j].ref

C3_Witness ==
  /\ step = Results
  /\ psqiScores # calculatedScores
  /\ \E i, j \in 1..Len(psqiScores) :
       /\ i < j
       /\ psqiScores[i].name # psqiScores[j].name
       /\ Matches[i] # {}
       /\ Matches[i] = Matches[j]
       /\ psqiScores[i].ref > 1

\* C4: of two reports matching different SortSpec entries, the one whose key
\* first appears earlier in the SortSpec comes first in the output, whatever
\* their input order; the SortSpec (Zhang San, Li Si) turns the reports
\* (Li Si, Zhang San, Wang Wu) into (Zhang San, Li Si, Wang Wu).
C4_OrderedBySpecPosition ==
  step = Results =>
    LET m == Matches
    IN /\ \A i, j \in 1..Len(psqiScores) :
            (m[i] # {} /\ m[j] # {} /\ Least(m[i]) < Least(m[j])) => i < j
       /\ (/\ nameSortOrder = <<Zhang, San, NL, Li, Si>>
           /\ NamesOf(Scored) = <<<<Li, Si>>, <<Zhang, San>>, <<Wang, Wu>>>>)
          => NamesOf(psqiScores) = <<<<Zhang, San>>, <<Li, Si>>, <<Wang, Wu>>>>

C4_Witness ==
  /\ step = Results
  /\ nameSortOrder = <<Zhang, San, NL, Li, Si>>
  /\ NamesOf(calculatedScores) = <<<<Li, Si>>, <<Zhang, San>>, <<Wang, Wu>>>>

\* C5: with a SortSpec that has an entry, every report whose key matches no
\* entry (a report without a name included) comes after every report whose
\* key matches one.
C5_UnmatchedLast ==
  (step = Results /\ SpecEntries(nameSortOrder) # <<>>) =>
    LET m == Matches
    IN \A i, j \in 1..Len(psqiScores) : (m[i] = {} /\ m[j] # {}) => j < i

C5_Witness ==
  /\ step = Results
  /\ Len(calculatedScores) >= 3
  /\ calculatedScores[1].name = <<>>
  /\ calculatedScores[2].name = <<Wang, Wu>>
  /\ Matches[1] # {}
  /\ psqiScores[1].ref = 3
  /\ psqiScores[2].name = <<>>

\* The rank map handleCalculateScores builds from the text typed.
OrderMap == pinyinOrderMap(sortOrderNames(nameSortOrder))

Greatest(set) == CHOOSE i \in set : \A j \in set : i >= j

\* C6: when several SortSpec entries have the same key, the rank map holds
\* for that key the index of the first of them, and a report with that key
\* stands before or after a report of another entry as the first occurrence
\* does.
C6_FirstOccurrenceRanks ==
  step = Results =>
    LET keys == KeysOf(SpecEntries(nameSortOrder))
        map == OrderMap
        m == Matches
    IN /\ DOMAIN map = {keys[i] : i \in 1..Len(keys)}
       /\ \A i \in 1..Len(keys) : map[keys[i]] = Least(MatchSet(keys, keys[i])) - 1
       /\ \A i, j \in 1..Len(psqiScores) :
            (Cardinality(m[i]) >= 2 /\ m[j] # {} /\ m[j] # m[i])
            => (i < j <=> Least(m[i]) < Least(m[j]))

C6_Witness ==
  /\ step = Results
  /\ \E i, j \in 1..Len(psqiScores) :
       /\ i < j
       /\ psqiScores[i].ref > psqiScores[j].ref
       /\ Matches[j] # {}
       /\ Least(Matches[i]) < Least(Matches[j])
       /\ Least(Matches[j]) < Greatest(Matches[i])

\* C7: blank SortSpec lines are skipped: the output is the one the same
\* SortSpec without its blank lines gives, and a report without a name is
\* ranked by no blank line (it stays behind every matched report).
C7_BlankLinesSkipped ==
  step = Results =>
    LET entries == SpecEntries(nameSortOrder)
        m == Matches
    IN /\ psqiScores = Reorder(Scored, JoinWith(entries, <<NL>>)).finalScores
       /\ entries # <<>> =>
            \A i, j \in 1..Len(psqiScores) :
              (FlatKey(psqiScores[i].name) = <<>> /\ m[j] # {}) => j < i

C7_Witness ==
  /\ step = Results
  /\ Len(SpecEntries(nameSortOrder)) = 2
  /\ IsBlankLine(Split(nameSortOrder)[2])
  /\ Len(calculatedScores) >= 2
  /\ calculatedScores[1].name = <<>>
  /\ psqiScores[Len(psqiScores)].name = <<>>
  /\ Matches[1] = {2}

\* C8: two reports whose names are written differently but have the same
\* phonetic key get the same rank (both looked up to the same index, or both
\* to none), stand in the output in their input order, and only reports of
\* that rank stand between them.
C8_SameKeySameRank ==
  step = Results =>
    LET map == OrderMap
        m == Matches
    IN \A i, j \in 1..Len(psqiScores) :
         (/\ i < j
          /\ psqiScores[i].name # psqiScores[j].name
          /\ FlatKey(psqiScores[i].name) = FlatKey(psqiScores[j].name))
         => /\ IndexOfKey(map, getPinyinKey(psqiScores[i].name))
                 = IndexOfKey(map, getPinyinKey(psqiScores[j].name))
            /\ psqiScores[i].ref < psqiScores[j].ref
            /\ \A k \in i..j : m[k] = m[i]

C8_Witness ==
  /\ step = Results
  /\ psqiScores # calculatedScores
  /\ \E i, j \in 1..Len(psqiScores) :
       /\ i < j
       /\ psqiScores[i].name = <<ZhangAlt, San>>
       /\ psqiScores[j].name = <<Zhang, San>>
       /\ Matches[i] # {}
       /\ calculatedScores[1].name = <<Wang, Wu>>

ScoreFields ==
  {"c1_sleepQuality", "c2_sleepLatency", "c3_sleepDuration",
   "c4_sleepEfficiency", "c5_sleepDisturbances", "c6_useOfMedication",
   "c7_daytimeDysfunction"}

\* C9: each of the seven component scores of a report is an integer in
\* 0..3, the total is their sum, and the total is in 0..21.
C9_ScoresInRange ==
  step = Results =>
    \A k \in 1..Len(psqiScores) :
      LET sc == psqiScores[k].scores
      IN /\ DOMAIN sc = ScoreFields
         /\ \A f \in ScoreFields : sc[f] \in 0..3
         /\ psqiScores[k].totalScore
              = sc.c1_sleepQuality + sc.c2_sleepLatency + sc.c3_sleepDuration
                + sc.c4_sleepEfficiency + sc.c5_sleepDisturbances
                + sc.c6_useOfMedication + sc.c7_daytimeDysfunction
         /\ psqiScores[k].totalScore \in 0..21

C9_Witness ==
  /\ step = Results
  /\ Len(psqiScores) = 1
  /\ psqiScores[1].scores.c7_daytimeDysfunction = 3
  /\ psqiScores[1].totalScore = 3

SurveyFields ==
  {"q1", "q2", "q3", "q4", "q5a", "q5b", "q5c", "q5d", "q5e", "q5f", "q5g",
   "q5h", "q5i", "q5j", "q6", "q7", "q8", "q9"}

AllSurveyBlank(raw) == \A f \in SurveyFields : IsBlankLine(raw[f])

\* C10: a record whose survey fields are all blank gets seven component
\* scores of 0 and a total of 0.
C10_BlankRecordScoresZero ==
  step = Results =>
    \A k \in 1..Len(psqiScores) :
      AllSurveyBlank(rawPsqiData[psqiScores[k].ref])
      => /\ \A f \in ScoreFields : psqiScores[k].scores[f] = 0
         /\ psqiScores[k].totalScore = 0

C10_Witness ==
  /\ step = Results
  /\ Len(psqiScores) = 1
  /\ AllSurveyBlank(rawPsqiData[1])
  /\ psqiScores[1].totalScore = 0

\* The value of a rating text that is a literal 0..3, else 0.
RatingValue(text) ==
  CASE text = <<"1">> -> 1 [] text = <<"2">> -> 2 [] text = <<"3">> -> 3
    [] OTHER -> 0

\* The sum of the eight disturbance ratings of a record.
DisturbanceSum(raw) ==
  RatingValue(raw.q5b) + RatingValue(raw.q5c) + RatingValue(raw.q5d)
  + RatingValue(raw.q5e) + RatingValue(raw.q5f) + RatingValue(raw.q5g)
  + RatingValue(raw.q5h) + RatingValue(raw.q5i)

\* C11: the sleep-disturbances component is decided by the sum of the eight
\* disturbance ratings: 0 gives 0, 1..9 gives 1, 10..18 gives 2, 19..24
\* gives 3 (so 9, 18 and 19 give 1, 2 and 3).
C11_DisturbanceBuckets ==
  step = Results =>
    \A k \in 1..Len(psqiScores) :
      LET sum == DisturbanceSum(rawPsqiData[psqiScores[k].ref])
          c5 == psqiScores[k].scores.c5_sleepDisturbances
      IN /\ sum \in 0..24
         /\ sum = 0 => c5 = 0
         /\ sum \in 1..9 => c5 = 1
         /\ sum \in 10..18 => c5 = 2
         /\ sum \in 19..24 => c5 = 3

C11_Witness ==
  /\ step = Results
  /\ Len(psqiScores) = 1
  /\ DisturbanceSum(rawPsqiData[1]) = 18
  /\ psqiScores[1].scores.c5_sleepDisturbances = 2

\* C12: when bed time and wake time are both given and the time in bed they
\* give is zero or less, the sleep-efficiency component is 3 and the
\* calculation ends without an error.
C12_NoTimeInBedScoresThree ==
  step = Results =>
    \A k \in 1..Len(psqiScores) :
      LET raw == rawPsqiData[psqiScores[k].ref]
          bed == ParseClock(raw.q1)
          wake == ParseClock(raw.q3)
          inBed == IF wake < bed THEN wake + 1440 - bed ELSE wake - bed
      IN (bed # Missing /\ wake # Missing /\ inBed <= 0)
         => /\ psqiScores[k].scores.c4_sleepEfficiency = 3
            /\ error = Null

C12_Witness ==
  /\ step = Results
  /\ Len(psqiScores) = 1
  /\ rawPsqiData[1].q1 = <<"2", "2", ":", "3", "0">>
  /\ rawPsqiData[1].q3 = <<"2", "2", ":", "3", "0">>
  /\ rawPsqiData[1].q4 = <<"7">>
  /\ psqiScores[1].scores.c4_sleepEfficiency = 3

\* A step in which calculateAllPsqiScores ran: the results screen is
\* entered, or the array of the last calculation is replaced.
ScoringRuns ==
  \/ step # Results /\ step' = Results
  \/ calculatedScores' # calculatedScores /\ calculatedScores' # <<>>

\* C13: an extraction that fails leaves an error message, step Upload and
\* rawPsqiData as it was, and runs no scoring; step DisplayData is entered
\* only by an extraction that succeeded, and scoring runs only from step
\* DisplayData with no error.
C13_FailedExtractionNeverScores ==
  [][/\ (step = Processing /\ error' # Null)
          => /\ step' = Upload
             /\ rawPsqiData' = rawPsqiData
             /\ ~ScoringRuns
     /\ (step = Processing /\ step' \notin {Processing, DisplayData})
          => error' # Null
     /\ (step # DisplayData /\ step' = DisplayData)
          => step = Processing /\ error' = Null /\ inFlight' < inFlight
     /\ ScoringRuns
          => step = DisplayData /\ error = Null /\ inFlight = 0]_vars

C13_Witness ==
  /\ step = Upload
  /\ error = ExtractError
  /\ ~isLoading
  /\ rawPsqiData = <<>>
  /\ psqiScores = <<>>

\* The report calculateAllPsqiScores makes of the i-th record of the batch.
FinishedReport(i) == [ref |-> i] @@ ScoreReportOf[rawPsqiData[i]]

\* C14: within handleCalculateScores the reorder begins only when every
\* record of the batch has its finished report, it orders those reports and
\* no others, and no report is scored once the reorder has begun.
C14_ReorderAfterScoring ==
  [][/\ (isLoading /\ step = DisplayData /\ ~isLoading')
          => /\ Len(calculatedScores) = Len(rawPsqiData)
             /\ \A i \in 1..Len(rawPsqiData) :
                  calculatedScores[i] = FinishedReport(i)
             /\ calculatedScores' = calculatedScores
             /\ step' = Results =>
                  /\ Len(psqiScores') = Len(rawPsqiData)
                  /\ \A k \in 1..Len(psqiScores') :
                       psqiScores'[k] = FinishedReport(psqiScores'[k].ref)
     /\ calculatedScores' \notin {calculatedScores, <<>>}
          => /\ isLoading /\ isLoading' /\ step = DisplayData
             /\ step' = DisplayData
             /\ psqiScores = <<>> /\ psqiScores' = <<>>
             /\ error = Null /\ error' = Null]_vars

C14_Witness ==
  /\ step = Results
  /\ Len(psqiScores) = MaxRecords
  /\ psqiScores # calculatedScores
  /\ \A i \in 1..Len(rawPsqiData) : calculatedScores[i] = FinishedReport(i)

C16_ReorderIdempotent ==
  step = Results =>
    /\ Reorder(calculateAllPsqiScores(rawPsqiData), nameSortOrder).finalScores
         = psqiScores
    /\ Reorder(psqiScores, nameSortOrder).finalScores = psqiScores
    /\ Reorder(psqiScores, nameSortOrder).calculatedScores = psqiScores

C16_Witness ==
  /\ step = Results
  /\ sortOrderNames(nameSortOrder) # <<>>
  /\ Len(psqiScores) = MaxRecords
  /\ psqiScores # calculatedScores
  /\ \E i, j \in 1..Len(psqiScores) :
       /\ i < j
       /\ getPinyinKey(psqiScores[i].name) = getPinyinKey(psqiScores[j].name)
  /\ Reorder(psqiScores, nameSortOrder).finalScores = psqiScores

\* The screen offers an action: a handler can start.
OffersAction == ShowsUploader \/ ShowsDataTable \/ ShowsResults \/ ShowsError

\* C17: at most one extraction is in flight; while isLoading is true the
\* screen offers no action; and from the start of handleImageUpload to the
\* end of its extraction the only step taken is that end, no other handler
\* changing step, rawPsqiData, error or nameSortOrder in between.
C17_OneExtractionNoInterleaving ==
  [][/\ inFlight \in {0, 1} /\ inFlight' \in {0, 1}
     /\ isLoading => ~OffersAction
     /\ isLoading' => ~OffersAction'
     /\ inFlight' > inFlight
          => /\ inFlight = 0 /\ ~isLoading /\ isLoading'
             /\ step' = Processing
     /\ inFlight > 0
          => /\ isLoading /\ step = Processing /\ error = Null
             /\ inFlight' = inFlight - 1
             /\ ~isLoading'
             /\ nameSortOrder' = nameSortOrder
             /\ \/ step' = DisplayData /\ error' = Null
                \/ step' = Upload /\ error' # Null
                     /\ rawPsqiData' = rawPsqiData]_vars

C17_Witness ==
  /\ inFlight = 1
  /\ isLoading
  /\ step = Processing
  /\ ~OffersAction
  /\ ~ENABLED HandleImageUpload
  /\ ~ENABLED HandleReset

\* C18: whenever no handler is running isLoading is false and step is not
\* Processing, so every handler run, successful or not, ends with isLoading
\* false; and if the extraction awaited resolves or rejects, step Processing
\* leads to step DisplayData without an error or to step Upload with one.
C18_LoadingEndsProcessingLeft ==
  /\ [](inFlight = 0 => ~isLoading /\ step # Processing)
  /\ [](step = Processing => inFlight = 1 /\ isLoading)
  /\ (step = Processing)
       ~> \/ step = DisplayData /\ error = Null /\ ~isLoading
          \/ step = Upload /\ error # Null /\ ~isLoading

C18_Witness ==
  /\ step = DisplayData
  /\ error = Null
  /\ ~isLoading
  /\ inFlight = 0
  /\ rawPsqiData # <<>>

\* A step of handleCalculateScores: from the data screen to the results or
\* to an error.
CalculateEnds == step = DisplayData /\ (step' = Results \/ error' # Null)

\* The comparator is bound to throw: a sort order with an entry, two or more
\* records, one of them with a name that is not a string.
ThrowExpected ==
  /\ Len(rawPsqiData) >= 2
  /\ \E i \in 1..Len(rawPsqiData) : rawPsqiData[i].name \in NonStrings
  /\ SpecEntries(nameSortOrder) # <<>>

\* C19: when the reorder throws, handleCalculateScores ends with an error
\* message, step DisplayData, and psqiScores, rawPsqiData and nameSortOrder
\* as they were; when it succeeds it ends with step Results, no error, and
\* psqiScores a permutation of the reports of the records of rawPsqiData.
C19_CalculateFailsOrSucceeds ==
  [][CalculateEnds =>
       /\ ~isLoading'
       /\ rawPsqiData' = rawPsqiData
       /\ nameSortOrder' = nameSortOrder
       /\ ThrowExpected => error' # Null
       /\ error' # Null
            => /\ step' = DisplayData
               /\ psqiScores' = psqiScores
       /\ step' = Results
            => /\ error' = Null
               /\ ~ThrowExpected
               /\ Len(psqiScores') = Len(rawPsqiData)
               /\ {psqiScores'[k].ref : k \in 1..Len(psqiScores')}
                    = 1..Len(rawPsqiData)
               /\ \A k \in 1..Len(psqiScores') :
                    psqiScores'[k] = [ref |-> psqiScores'[k].ref]
                        @@ ScoreReportOf[rawPsqiData[psqiScores'[k].ref]]]_vars

C19_Witness ==
  /\ step = DisplayData
  /\ error = CalcError
  /\ ~isLoading
  /\ psqiScores = <<>>
  /\ ThrowExpected

\* A step of handleReset: no handler was running, none is, and step Upload
\* is entered or kept (an upload starts loading, an extraction ends it).
ResetStep == ~isLoading /\ ~isLoading' /\ step' = Upload

\* C20: handleReset, from whatever state it is offered in, restores the
\* state the component was constructed in; and in every state with step
\* Upload, rawPsqiData and psqiScores are empty.
C20_ResetRestoresInitialState ==
  [][/\ ResetStep
          => /\ rawPsqiData' = <<>>
             /\ psqiScores' = <<>>
             /\ error' = Null
             /\ nameSortOrder' = <<>>
             /\ inFlight' = 0
     /\ (ShowsError \/ ShowsDataTable \/ ShowsResults)
          => ENABLED (HandleReset /\ ResetStep)
     /\ step = Upload => rawPsqiData = <<>> /\ psqiScores = <<>>
     /\ step' = Upload => rawPsqiData' = <<>> /\ psqiScores' = <<>>]_vars

C20_Witness ==
  /\ ENABLED HandleReset
  /\ step = Results
  /\ Len(rawPsqiData) = MaxRecords
  /\ Len(psqiScores) = MaxRecords
  /\ psqiScores # calculatedScores
  /\ Len(Split(nameSortOrder)) = MaxLines

====
